---- MODULE Spec2Model ----
(***************************************************************************)
(* Model of the CC1101 driver (cc1101/__init__.py).                        *)
(*                                                                         *)
(* The driver is a synchronous codec over an SPI transport: every method   *)
(* is a sequence of blocking bus transactions.  The state is the device's  *)
(* configuration registers (the device is authoritative), whether the      *)
(* transport is open, the caller's position (outside a session, inside a   *)
(* `with CC1101()` block, inside a `with asynchronous_transmission()`      *)
(* block) and the observable outcome of the most recent method call: the   *)
(* bus transactions it issued, the exception it raised and the value it    *)
(* returned.  Every action is one whole method call.                       *)
(***************************************************************************)
EXTENDS Integers, Sequences, FiniteSets, TLC

VARIABLES
    phase,      \* "new" | "active" | "async" | "closed" | "failed"
    spiOpen,    \* self._spi is open
    regs,       \* device configuration registers, by name
    lastOp,     \* name of the most recent method call
    lastArg,    \* its argument, as a sequence
    log,        \* bus transactions issued by the most recent call, in order
    result,     \* exception raised by the most recent call, or "none"
    returned    \* value returned by the most recent call

vars == <<phase, spiOpen, regs, lastOp, lastArg, log, result, returned>>

----------------------------------------------------------------------------
(* Bounds of the model *)

\* longest payload handed to transmit()
MaxPayloadLen == 3
\* largest RXBYTES value the device reports
MaxRxBytes == 4
\* longest preamble length asked of set_preamble_length_bytes()
MaxPreambleLength == 49
\* the frequency control words examined are the MaxFrequencyWord + 1 lowest,
\* the MaxFrequencyWord + 1 highest and those around the powers of two
MaxFrequencyWord == 300
MaxSymbolRate == 1100

----------------------------------------------------------------------------
(* Bytes and bit operations *)

Byte == 0..255

RECURSIVE BitAnd(_, _)
BitAnd(a, b) ==
    IF a = 0 \/ b = 0 THEN 0
    ELSE (a % 2) * (b % 2) + 2 * BitAnd(a \div 2, b \div 2)

RECURSIVE BitOr(_, _)
BitOr(a, b) ==
    IF a = 0 THEN b
    ELSE IF b = 0 THEN a
    ELSE (IF a % 2 = 1 \/ b % 2 = 1 THEN 1 ELSE 0)
         + 2 * BitOr(a \div 2, b \div 2)

\* python's ~m restricted to the 8 bits of a register byte
Invert(m) == 255 - m

ShiftLeft(v, n) == v * (2 ^ n)
ShiftRight(v, n) == v \div (2 ^ n)

----------------------------------------------------------------------------
(* Constants of the driver *)

_WRITE_SINGLE_BYTE == 0
_WRITE_BURST == 64
_READ_SINGLE_BYTE == 128
_READ_BURST == 192

_SUPPORTED_PARTNUM == 0
_SUPPORTED_VERSION == 20

\* MainRadioControlStateMachineState
IDLE == 1
MainRadioControlStateMachineState == {1, 8, 9, 10, 13, 17, 19}

\* _TransceiveMode
FIFO == 0
ASYNCHRONOUS_SERIAL == 3

\* cc1101.options.PacketLengthMode (fixed / variable / infinite)
PacketLengthMode_FIXED == 0
PacketLengthMode_VARIABLE == 1
PacketLengthMode_INFINITE == 2
PacketLengthMode ==
    {PacketLengthMode_FIXED, PacketLengthMode_VARIABLE, PacketLengthMode_INFINITE}

\* cc1101.options.ModulationFormat.ASK_OOK
ASK_OOK == 3

\* cc1101.addresses: the 6-bit addresses of the configuration registers,
\* command strobes, status registers and FIFOs
Address ==
    [SYNC1 |-> 4, SYNC0 |-> 5, PKTLEN |-> 6, PKTCTRL0 |-> 8,
     FREQ2 |-> 13, FREQ1 |-> 14, FREQ0 |-> 15,
     MDMCFG4 |-> 16, MDMCFG3 |-> 17, MDMCFG2 |-> 18, MDMCFG1 |-> 19,
     MCSM0 |-> 24, FREND0 |-> 34,
     SRES |-> 48, SRX |-> 52, STX |-> 53, SIDLE |-> 54, SFRX |-> 58,
     SFTX |-> 59,
     PARTNUM |-> 48, VERSION |-> 49, MARCSTATE |-> 53, RXBYTES |-> 59,
     TX |-> 63, RX |-> 63]

StrobeAddress == {"SRES", "SRX", "STX", "SIDLE", "SFRX", "SFTX"}
StatusRegisterAddress == {"PARTNUM", "VERSION", "MARCSTATE", "RXBYTES"}
FIFORegisterAddress == {"TX", "RX"}

----------------------------------------------------------------------------
(* The device and the transport, as the driver sees them *)

\* chip status bytes the device answers with (STATE=IDLE, STATE=TX)
StatusBytes == {15, 47}

\* register contents the device may hold after power-on or SRES
ResetRegs ==
    [PKTCTRL0 : {69, 114}, PKTLEN : {255, 2}, MDMCFG2 : {2},
     FREND0 : {16}, MCSM0 : {4},
     SYNC1 : {211}, SYNC0 : {145}, FREQ2 : {30}, FREQ1 : {196}, FREQ0 : {236},
     MDMCFG4 : {140}, MDMCFG3 : {34}, MDMCFG1 : {34}]

\* MARCSTATE values the device may report (0x16 TXFIFO_UNDERFLOW is not a
\* member of the driver's enumeration)
MarcStates == {1, 13, 19, 22}

\* spidev's xfer: full duplex, the response has the length of the request;
\* the first byte of every response is the chip status byte
Response(data) == <<15>> \o data

\* response to a burst write of n values: n+1 chip status bytes; when `bad`
\* the chip status changes during the transfer
EchoResponse(n, bad) ==
    [i \in 1..(n + 1) |-> IF bad /\ i = n + 1 /\ i > 1 THEN 47 ELSE 15]

\* response to a burst write of n values under a transport fault: "echo",
\* the chip status changes during the transfer; "length", the response is
\* one byte short
WriteFaults == {"none", "echo", "length"}
WriteResponse(n, fault) ==
    IF fault = "length" THEN [i \in 1..n |-> 15]
    ELSE EchoResponse(n, fault = "echo")

\* effect of a write on the device: the values go to the registers at
\* consecutive addresses, from the start register on
DeviceWrite(r, register, values) ==
    IF register \in DOMAIN r
    THEN [name \in DOMAIN r |->
            LET k == Address[name] - Address[register] + 1
            IN  IF 1 <= k /\ k <= Len(values) THEN values[k] ELSE r[name]]
    ELSE r

----------------------------------------------------------------------------
(* Bus transaction layer.  A context c is the device's registers, the      *)
(* transactions issued so far by the running method and the exception it   *)
(* has raised; a step of a method that has already raised does nothing.    *)

Context(r) == [regs |-> r, log |-> <<>>, exc |-> "none"]

Ok(c) == c.exc = "none"

Raise(c, e) == IF Ok(c) THEN [c EXCEPT !.exc = e] ELSE c

\* one self._spi.xfer(request): request is the header byte, register | flag,
\* followed by the data bytes tx
Xfer(flag, register, tx, response) ==
    [flag |-> flag, reg |-> register, tx |-> tx, response |-> response,
     request |-> <<BitOr(Address[register], flag)>> \o tx]

_read_single_byte(c, register, response) ==
    IF ~Ok(c) THEN c
    ELSE LET c1 == [c EXCEPT !.log =
                       Append(@, Xfer(_READ_SINGLE_BYTE, register, <<0>>, response))]
         IN  IF Len(response) # 2 THEN Raise(c1, "AssertionError") ELSE c1

_read_burst(c, start_register, length, response) ==
    IF ~Ok(c) THEN c
    ELSE LET c1 == [c EXCEPT !.log =
                       Append(@, Xfer(_READ_BURST, start_register,
                                      [i \in 1..length |-> 0], response))]
         IN  IF Len(response) # length + 1
             THEN Raise(c1, "AssertionError") ELSE c1

\* a status register read without the burst bit
_read_status_register_without_burst_bit(c, register, response) ==
    IF ~Ok(c) THEN c
    ELSE LET c1 == [c EXCEPT !.log =
                       Append(@, Xfer(_READ_SINGLE_BYTE, register, <<0>>, response))]
         IN  IF Len(response) # 2 THEN Raise(c1, "AssertionError") ELSE c1

_read_status_register(c, register, response) ==
    IF ~Ok(c) THEN c
    ELSE LET c1 == [c EXCEPT !.log =
                       Append(@, Xfer(_READ_BURST, register, <<0>>, response))]
         IN  IF Len(response) # 2 THEN Raise(c1, "AssertionError") ELSE c1

_command_strobe(c, register, response) ==
    IF ~Ok(c) THEN c
    ELSE LET c1 == [c EXCEPT !.log =
                       Append(@, Xfer(_WRITE_SINGLE_BYTE, register, <<>>, response))]
         IN  IF Len(response) # 1 THEN Raise(c1, "AssertionError") ELSE c1

\* a burst write that accepts whatever comes back
_write_burst_unchecked(c, start_register, values, response) ==
    IF ~Ok(c) THEN c
    ELSE [c EXCEPT !.log = Append(@, Xfer(_WRITE_BURST, start_register,
                                          values, response)),
                   !.regs = DeviceWrite(@, start_register, values)]

_write_burst(c, start_register, values, response) ==
    IF ~Ok(c) THEN c
    ELSE LET c1 == [c EXCEPT
                       !.log = Append(@, Xfer(_WRITE_BURST, start_register,
                                              values, response)),
                       !.regs = DeviceWrite(@, start_register, values)]
         IN  IF Len(response) # Len(values) + 1
             THEN Raise(c1, "AssertionError")
             ELSE IF \E i \in 2..Len(response) : response[i] # response[1]
             THEN Raise(c1, "AssertionError")
             ELSE c1

\* the byte the device answers to a single-byte read of a register
RegisterResponse(c, register) == Response(<<c.regs[register]>>)

\* SRES: the device reloads its registers
_reset(c, reloaded) ==
    LET c1 == _command_strobe(c, "SRES", Response(<<>>))
    IN  IF Ok(c) THEN [c1 EXCEPT !.regs = reloaded] ELSE c1

----------------------------------------------------------------------------
(* Register codec layer *)

_set_modulation_format(c, modulation_format, echo) ==
    LET r == RegisterResponse(c, "MDMCFG2")
        c1 == _read_single_byte(c, "MDMCFG2", r)
        masked == BitAnd(r[2], Invert(ShiftLeft(modulation_format, 4)))
        mdmcfg2 == BitOr(masked, ShiftLeft(modulation_format, 4))
    IN  _write_burst(c1, "MDMCFG2", <<mdmcfg2>>, echo)

_set_power_amplifier_setting_index(c, setting_index, echo) ==
    LET r == RegisterResponse(c, "FREND0")
        c1 == _read_single_byte(c, "FREND0", r)
    IN  _write_burst(c1, "FREND0", <<setting_index>>, echo)

_disable_data_whitening(c, echo) ==
    LET r == RegisterResponse(c, "PKTCTRL0")
        c1 == _read_single_byte(c, "PKTCTRL0", r)
        pktctrl0 == BitAnd(r[2], 191)
    IN  _write_burst(c1, "PKTCTRL0", <<pktctrl0>>, echo)

\* a setter that ORs the mode in without clearing PKT_FORMAT first
_set_transceive_mode_without_clearing(c, mode, echo) ==
    LET r == RegisterResponse(c, "PKTCTRL0")
        c1 == _read_single_byte(c, "PKTCTRL0", r)
        pktctrl0 == BitOr(r[2], ShiftLeft(mode, 4))
    IN  _write_burst(c1, "PKTCTRL0", <<pktctrl0>>, echo)

\* the log call evaluates mode.name first: a value that is no member of
\* _TransceiveMode is a plain int and has no such attribute
_set_transceive_mode(c, mode, echo) ==
    IF mode \notin 0..3 THEN Raise(c, "AttributeError")
    ELSE LET r == RegisterResponse(c, "PKTCTRL0")
             c1 == _read_single_byte(c, "PKTCTRL0", r)
             pktctrl0 == BitOr(BitAnd(r[2], Invert(48)), ShiftLeft(mode, 4))
         IN  _write_burst(c1, "PKTCTRL0", <<pktctrl0>>, echo)

_get_transceive_mode_of(pktctrl0) == BitAnd(ShiftRight(pktctrl0, 4), 3)

\* value of the enumeration, or a ValueError when the byte is no member
get_main_radio_control_state_machine_state(c, marcstate) ==
    LET c1 == _read_status_register(c, "MARCSTATE", Response(<<marcstate>>))
    IN  IF marcstate \in MainRadioControlStateMachineState
        THEN c1 ELSE Raise(c1, "ValueError")

\* value of the enumeration, or a ValueError when the bits are no member
get_packet_length_mode(c) ==
    LET r == RegisterResponse(c, "PKTCTRL0")
        c1 == _read_single_byte(c, "PKTCTRL0", r)
    IN  IF BitAnd(r[2], 3) \in PacketLengthMode
        THEN c1 ELSE Raise(c1, "ValueError")

set_packet_length_mode(c, mode, echo) ==
    LET r == RegisterResponse(c, "PKTCTRL0")
        c1 == _read_single_byte(c, "PKTCTRL0", r)
        pktctrl0 == BitOr(BitAnd(r[2], 252), mode)
    IN  _write_burst(c1, "PKTCTRL0", <<pktctrl0>>, echo)

get_packet_length_bytes(c) ==
    _read_single_byte(c, "PKTLEN", RegisterResponse(c, "PKTLEN"))

set_packet_length_bytes(c, packet_length, echo) ==
    IF ~(1 <= packet_length /\ packet_length <= 255)
    THEN Raise(c, "AssertionError")
    ELSE _write_burst(c, "PKTLEN", <<packet_length>>, echo)

\* cc1101.options.ModulationFormat: FSK2, GFSK, ASK_OOK, FSK4, MSK
ModulationFormat == {0, 1, 3, 4, 7}

\* cc1101.options.SyncMode: the four values of the 2-bit field
SyncMode == 0..3

\* _TransceiveMode
_TransceiveMode == 0..3

\* the bits get_modulation_format() hands to ModulationFormat(...)
get_modulation_format_of(mdmcfg2) == BitAnd(ShiftRight(mdmcfg2, 4), 7)

enable_manchester_code(c, echo) ==
    LET r == RegisterResponse(c, "MDMCFG2")
        c1 == _read_single_byte(c, "MDMCFG2", r)
        mdmcfg2 == BitOr(r[2], 8)
    IN  _write_burst(c1, "MDMCFG2", <<mdmcfg2>>, echo)

\* a setter whose mask also clears MANCHESTER_EN and the bit below it
set_sync_mode_clearing_low_nibble(c, mode, echo) ==
    LET r == RegisterResponse(c, "MDMCFG2")
        c1 == _read_single_byte(c, "MDMCFG2", r)
        mdmcfg2 == BitOr(BitAnd(r[2], 240), mode)
    IN  _write_burst(c1, "MDMCFG2", <<mdmcfg2>>, echo)

set_sync_mode(c, mode, echo) ==
    LET r == RegisterResponse(c, "MDMCFG2")
        c1 == _read_single_byte(c, "MDMCFG2", r)
        mdmcfg2 == BitOr(BitAnd(r[2], 252), mode)
    IN  _write_burst(c1, "MDMCFG2", <<mdmcfg2>>, echo)

disable_checksum(c, echo) ==
    LET r == RegisterResponse(c, "PKTCTRL0")
        c1 == _read_single_byte(c, "PKTCTRL0", r)
        pktctrl0 == BitAnd(r[2], 251)
    IN  _write_burst(c1, "PKTCTRL0", <<pktctrl0>>, echo)

\* a decoder that ignores the low bit of the index
PreambleLengthOfIndex_ignoring_low_bit(index) == (2 ^ ShiftRight(index, 1)) * 2

\* 2 ** (index >> 1) * (2 + (index & 0b1))
PreambleLengthOfIndex(index) ==
    (2 ^ ShiftRight(index, 1)) * (2 + BitAnd(index, 1))

\* the length get_preamble_length_bytes() decodes from MDMCFG1
get_preamble_length_bytes_of(mdmcfg1) ==
    PreambleLengthOfIndex(BitAnd(ShiftRight(mdmcfg1, 4), 7))

_set_preamble_length_index(c, index, echo) ==
    IF ~(0 <= index /\ index <= 7) THEN Raise(c, "AssertionError")
    ELSE LET r == RegisterResponse(c, "MDMCFG1")
             c1 == _read_single_byte(c, "MDMCFG1", r)
             mdmcfg1 == BitOr(BitAnd(r[2], 143), ShiftLeft(index, 4))
         IN  _write_burst(c1, "MDMCFG1", <<mdmcfg1>>, echo)

\* floor(log2(n)) of an integer n >= 1
RECURSIVE FloorLog2(_)
FloorLog2(n) == IF n < 2 THEN 0 ELSE 1 + FloorLog2(n \div 2)

IsPowerOfTwo(n) == n >= 1 /\ 2 ^ FloorLog2(n) = n

\* the float index set_preamble_length_bytes() computes for a length >= 1:
\* math.log2(length / 3) * 2 + 1 when length % 3 == 0, else
\* math.log2(length / 2) * 2; is_integer tells whether it is a whole number
PreambleIndex(length) ==
    IF length % 3 = 0
    THEN IF IsPowerOfTwo(length \div 3)
         THEN [is_integer |-> TRUE, value |-> FloorLog2(length \div 3) * 2 + 1]
         ELSE [is_integer |-> FALSE, value |-> 0]
    ELSE IF IsPowerOfTwo(length)
         THEN [is_integer |-> TRUE, value |-> (FloorLog2(length) - 1) * 2]
         ELSE [is_integer |-> FALSE, value |-> 0]

set_preamble_length_bytes(c, length, echo) ==
    IF length < 1 THEN Raise(c, "ValueError")
    ELSE LET index == PreambleIndex(length)
         IN  IF ~index.is_integer \/ index.value < 0 \/ index.value > 7
             THEN Raise(c, "ValueError")
             ELSE _set_preamble_length_index(c, index.value, echo)

\* a setter that writes whatever it is given
set_sync_word_unchecked(c, sync_word, echo) ==
    _write_burst(c, "SYNC1", sync_word, echo)

set_sync_word(c, sync_word, echo) ==
    IF Len(sync_word) # 2 THEN Raise(c, "ValueError")
    ELSE _write_burst(c, "SYNC1", sync_word, echo)

----------------------------------------------------------------------------
(* Physical quantity converters.  Python computes them in binary floating  *)
(* point; on the values below every intermediate result is a dyadic        *)
(* rational that a double holds exactly, so they are computed here in      *)
(* integers: a symbol rate is a number of units of f_xosc / 2^28 and a     *)
(* frequency a number of units of f_xosc / 2^22.                           *)

\* python's round(num / den) for den > 0: to the nearest integer, a tie to
\* the even one
RoundHalfEven(num, den) ==
    LET q == num \div den
        r == num - q * den
    IN  IF 2 * r < den THEN q
        ELSE IF 2 * r > den THEN q + 1
        ELSE IF q % 2 = 0 THEN q ELSE q + 1

\* a decoder that forgets the implicit leading one of the mantissa
_symbol_rate_floating_point_to_real_without_leading_one(mantissa, exponent) ==
    mantissa * (2 ^ exponent)

\* (256 + mantissa) * 2**exponent * f_xosc / 2**28, in units of f_xosc / 2**28
_symbol_rate_floating_point_to_real(mantissa, exponent) ==
    (256 + mantissa) * (2 ^ exponent)

\* real in units of f_xosc / 2**28: floor(log2(real / f_xosc) + 20) is
\* floor(log2(real)) - 8, and real * 2**28 / f_xosc / 2**exponent is
\* real / 2**exponent
\* an encoder that keeps a mantissa rounded up to 256
_symbol_rate_real_to_floating_point_without_carry(real) ==
    IF ~(real > 0)
    THEN [exc |-> "AssertionError", mantissa |-> 0, exponent |-> 0]
    ELSE LET exponent == FloorLog2(real) - 8
             mantissa ==
                 IF exponent >= 0
                 THEN RoundHalfEven(real - 256 * (2 ^ exponent), 2 ^ exponent)
                 ELSE real * (2 ^ (0 - exponent)) - 256
         IN  IF ~(0 < exponent /\ exponent <= 16)
             THEN [exc |-> "AssertionError", mantissa |-> mantissa,
                   exponent |-> exponent]
             ELSE IF ~(mantissa <= 256)
             THEN [exc |-> "AssertionError", mantissa |-> mantissa,
                   exponent |-> exponent]
             ELSE [exc |-> "none", mantissa |-> mantissa, exponent |-> exponent]

_symbol_rate_real_to_floating_point(real) ==
    IF ~(real > 0)
    THEN [exc |-> "AssertionError", mantissa |-> 0, exponent |-> 0]
    ELSE LET exponent0 == FloorLog2(real) - 8
             mantissa0 ==
                 IF exponent0 >= 0
                 THEN RoundHalfEven(real - 256 * (2 ^ exponent0), 2 ^ exponent0)
                 ELSE real * (2 ^ (0 - exponent0)) - 256
             exponent == IF mantissa0 = 256 THEN exponent0 + 1 ELSE exponent0
             mantissa == IF mantissa0 = 256 THEN 0 ELSE mantissa0
         IN  IF ~(0 < exponent /\ exponent <= 16)
             THEN [exc |-> "AssertionError", mantissa |-> mantissa,
                   exponent |-> exponent]
             ELSE IF ~(mantissa <= 256)
             THEN [exc |-> "AssertionError", mantissa |-> mantissa,
                   exponent |-> exponent]
             ELSE [exc |-> "none", mantissa |-> mantissa, exponent |-> exponent]

\* what _get_symbol_rate_mantissa() and _get_symbol_rate_exponent() make of
\* the bytes they read
_get_symbol_rate_mantissa_of(mdmcfg3) == mdmcfg3
_get_symbol_rate_exponent_of(mdmcfg4) == BitAnd(mdmcfg4, 15)

_set_symbol_rate_mantissa(c, mantissa, echo) ==
    _write_burst(c, "MDMCFG3", <<mantissa>>, echo)

_set_symbol_rate_exponent(c, exponent, echo) ==
    LET r == RegisterResponse(c, "MDMCFG4")
        c1 == _read_single_byte(c, "MDMCFG4", r)
        mdmcfg4 == BitOr(BitAnd(r[2], 240), exponent)
    IN  _write_burst(c1, "MDMCFG4", <<mdmcfg4>>, echo)

\* fault: which of the two burst writes sees its status byte change, or 0
set_symbol_rate_baud(c, real, fault) ==
    LET fp == _symbol_rate_real_to_floating_point(real)
    IN  IF fp.exc # "none" THEN Raise(c, fp.exc)
        ELSE LET c1 == _set_symbol_rate_mantissa(c, fp.mantissa,
                                                 EchoResponse(1, fault = 1))
             IN  _set_symbol_rate_exponent(c1, fp.exponent,
                                           EchoResponse(1, fault = 2))

\* f_xosc / 2**16, in units of f_xosc / 2**22
_FREQUENCY_CONTROL_WORD_HERTZ_FACTOR == 64

\* int.from_bytes(control_word, byteorder="big") * factor
_frequency_control_word_to_hertz(control_word) ==
    (control_word[1] * 65536 + control_word[2] * 256 + control_word[3])
    * _FREQUENCY_CONTROL_WORD_HERTZ_FACTOR

\* int.to_bytes(length=3, byteorder="big", signed=False)
ToBytes3(word) ==
    IF word < 0 \/ word >= 2 ^ 24
    THEN [exc |-> "OverflowError", bytes |-> <<>>]
    ELSE [exc |-> "none",
          bytes |-> <<word \div 65536, (word \div 256) % 256, word % 256>>]

\* a conversion that emits the least significant byte first
_hertz_to_frequency_control_word_little_endian(hertz) ==
    LET b == ToBytes3(RoundHalfEven(hertz, _FREQUENCY_CONTROL_WORD_HERTZ_FACTOR))
    IN  IF b.exc # "none" THEN b
        ELSE [b EXCEPT !.bytes = <<b.bytes[3], b.bytes[2], b.bytes[1]>>]

_hertz_to_frequency_control_word(hertz) ==
    ToBytes3(RoundHalfEven(hertz, _FREQUENCY_CONTROL_WORD_HERTZ_FACTOR))

_set_base_frequency_control_word(c, control_word, echo) ==
    _write_burst(c, "FREQ2", control_word, echo)

set_base_frequency_hertz(c, freq, echo) ==
    LET w == _hertz_to_frequency_control_word(freq)
    IN  IF w.exc # "none" THEN Raise(c, w.exc)
        ELSE _set_base_frequency_control_word(c, w.bytes, echo)

----------------------------------------------------------------------------
(* Packet transceive protocol *)

\* a flush that strobes the RX FIFO flush instead
_flush_tx_fifo_buffer_strobing_SFRX(c) ==
    _command_strobe(c, "SFRX", Response(<<>>))

_flush_tx_fifo_buffer(c) == _command_strobe(c, "SFTX", Response(<<>>))

\* framing that never prepends the length byte
FramedPayload_without_prefix(packet_length_mode, payload) == payload

\* framing that prepends the length byte in every mode
FramedPayload_always_prefixed(packet_length_mode, payload) ==
    <<Len(payload)>> \o payload

\* the bytes transmit() hands to the TX FIFO: int.to_bytes(len(payload),
\* length=1) + payload in variable packet length mode, else the payload
FramedPayload(packet_length_mode, payload) ==
    IF packet_length_mode = PacketLengthMode_VARIABLE
    THEN <<Len(payload)>> \o payload
    ELSE payload

\* transmit() without its MARCSTATE guard
transmit_requires_idle_skipped(c, marcstate) == c

\* "device must be idle before transmission"
transmit_requires_idle(c, marcstate) ==
    IF marcstate # IDLE THEN Raise(c, "Exception") ELSE c

\* in: marcstate  the MARCSTATE the device reports
\*     fault      TRUE when the chip status changes during the FIFO write
transmit(c, payload, in) ==
    LET packet_length_mode == BitAnd(c.regs["PKTCTRL0"], 3)
        packet_length == c.regs["PKTLEN"]
        c1 == get_packet_length_mode(c)
        c2 == get_packet_length_bytes(c1)
        c3 == IF packet_length_mode = PacketLengthMode_VARIABLE
              THEN IF Len(payload) = 0 THEN Raise(c2, "ValueError")
                   ELSE IF Len(payload) > packet_length
                        THEN Raise(c2, "ValueError")
                   ELSE c2
              ELSE IF /\ packet_length_mode = PacketLengthMode_FIXED
                      /\ Len(payload) # packet_length
                   THEN Raise(c2, "ValueError")
              ELSE c2
        framed == FramedPayload(packet_length_mode, payload)
        c4 == get_main_radio_control_state_machine_state(c3, in.marcstate)
        c5 == transmit_requires_idle(c4, in.marcstate)
        c6 == _flush_tx_fifo_buffer(c5)
        c7 == _write_burst(c6, "TX", framed, EchoResponse(Len(framed), in.fault))
    IN  _command_strobe(c7, "STX", Response(<<>>))

\* asynchronous_transmission(), up to the yield
asynchronous_transmission_enter(c, fault) ==
    LET c1 == _set_transceive_mode(c, ASYNCHRONOUS_SERIAL, EchoResponse(1, fault))
    IN  _command_strobe(c1, "STX", Response(<<>>))

\* asynchronous_transmission(), the finally clause
asynchronous_transmission_finally(c, fault) ==
    LET c1 == _command_strobe(c, "SIDLE", Response(<<>>))
    IN  _set_transceive_mode(c1, FIFO, EchoResponse(1, fault))

_enable_receive_mode(c) == _command_strobe(c, "SRX", Response(<<>>))

\* buffer[:-1]: a payload that keeps the RSSI byte
AllButLastTwo_keeping_rssi(buffer) == SubSeq(buffer, 1, Len(buffer) - 1)

\* python's buffer[:-2], buffer[-2] and buffer[-1]
AllButLastTwo(buffer) == SubSeq(buffer, 1, Len(buffer) - 2)
SecondToLast(buffer) == buffer[Len(buffer) - 1]
Last(buffer) == buffer[Len(buffer)]

_ReceivedPacket(data, rssi_index, checksum_valid, link_quality_indicator) ==
    [kind |-> "packet", data |-> data, rssi_index |-> rssi_index,
     checksum_valid |-> checksum_valid,
     link_quality_indicator |-> link_quality_indicator]

\* the record _get_received_packet builds from the RX FIFO bytes
ParsePacket(buffer) ==
    _ReceivedPacket(AllButLastTwo(buffer), SecondToLast(buffer),
                    ShiftRight(Last(buffer), 7) # 0,
                    BitAnd(Last(buffer), 63))

\* in: rxbytes  the RXBYTES the device reports,  buffer  the RX FIFO bytes
_get_received_packet(c, in) ==
    LET c1 == _read_status_register(c, "RXBYTES", Response(<<in.rxbytes>>))
    IN  IF in.rxbytes < 2 THEN c1
        ELSE LET c2 == _read_burst(c1, "RX", in.rxbytes, Response(in.buffer))
                 p == ParsePacket(in.buffer)
             IN  IF ~(0 <= p.rssi_index /\ p.rssi_index < 256)
                 THEN Raise(c2, "AssertionError")
                 ELSE IF ~(0 <= p.link_quality_indicator
                           /\ p.link_quality_indicator < 128)
                 THEN Raise(c2, "AssertionError")
                 ELSE c2

\* _ReceivedPacket._RSSI_OFFSET_dB
_RSSI_OFFSET_dB == 74

\* an RSSI decoded as an unsigned number
rssi_dbm_unsigned(_rssi_index) == _rssi_index - 2 * _RSSI_OFFSET_dB

\* _ReceivedPacket.rssi_dbm, a multiple of 0.5 dBm, as the number of half dBm
rssi_dbm(_rssi_index) ==
    IF _rssi_index >= 128
    THEN (_rssi_index - 256) - 2 * _RSSI_OFFSET_dB
    ELSE _rssi_index - 2 * _RSSI_OFFSET_dB

----------------------------------------------------------------------------
(* Device session *)

\* an identity check that accepts every chip
IdentityMismatch_ignored(actual, supported) == FALSE

\* `if partnum != self._SUPPORTED_PARTNUM`, `if version != ...`
IdentityMismatch(actual, supported) == actual # supported

\* an acquisition that accepts every MARCSTATE
enter_requires_idle_skipped(c, marcstate) == c

\* "expected marcstate idle"
enter_requires_idle(c, marcstate) ==
    IF marcstate # IDLE THEN Raise(c, "ValueError") ELSE c

\* in: the device's answers during acquisition
\*   reloaded  registers after SRES        partnum, version, marcstate
\*   fault     which of the burst writes (1..4) sees its status byte change,
\*             0 for none
__enter__(c, in) ==
    LET c1 == _reset(c, in.reloaded)
        c2 == _read_status_register(c1, "PARTNUM", Response(<<in.partnum>>))
        c3 == IF IdentityMismatch(in.partnum, _SUPPORTED_PARTNUM)
              THEN Raise(c2, "ValueError") ELSE c2
        c4 == _read_status_register(c3, "VERSION", Response(<<in.version>>))
        c5 == IF IdentityMismatch(in.version, _SUPPORTED_VERSION)
              THEN Raise(c4, "ValueError") ELSE c4
        c6 == _set_modulation_format(c5, ASK_OOK, EchoResponse(1, in.fault = 1))
        c7 == _set_power_amplifier_setting_index(c6, 1,
                                                 EchoResponse(1, in.fault = 2))
        c8 == _disable_data_whitening(c7, EchoResponse(1, in.fault = 3))
        c9 == _write_burst(c8, "MCSM0", <<20>>, EchoResponse(1, in.fault = 4))
        c10 == get_main_radio_control_state_machine_state(c9, in.marcstate)
    IN  enter_requires_idle(c10, in.marcstate)

\* an __exit__ that returns True
__exit__suppressing(exc) == [open |-> FALSE, log |-> <<>>, suppress |-> TRUE]

\* __exit__(exc_type, exc_value, traceback): closes the transport, issues no
\* transaction and returns False (the exception in flight is not suppressed)
__exit__(exc) == [open |-> FALSE, log |-> <<>>, suppress |-> FALSE]

None == [kind |-> "None"]

Init ==
    /\ phase = "new"
    /\ spiOpen = FALSE
    /\ regs \in ResetRegs
    /\ lastOp = "init"
    /\ lastArg = <<>>
    /\ log = <<>>
    /\ result = "none"
    /\ returned = None

\* `with CC1101() as transceiver:` -- when __enter__ raises, the with
\* statement does not call __exit__
Enter ==
    /\ phase \in {"new", "closed"}
    /\ \E reloaded \in ResetRegs, partnum \in {0, 128}, version \in {20, 4},
          marcstate \in MarcStates, fault \in 0..4 :
         LET c == __enter__(Context(regs),
                            [reloaded |-> reloaded, partnum |-> partnum,
                             version |-> version, marcstate |-> marcstate,
                             fault |-> fault])
         IN  /\ spiOpen' = TRUE
             /\ regs' = c.regs
             /\ log' = c.log
             /\ result' = c.exc
             /\ phase' = IF Ok(c) THEN "active" ELSE "failed"
    /\ lastOp' = "enter"
    /\ lastArg' = <<>>
    /\ returned' = None

\* leaving the with block, normally or with the exception exc in flight
Exit ==
    /\ phase = "active"
    /\ \E exc \in {"none", "CallerError", result} :
         LET e == __exit__(exc)
         IN  /\ lastArg' = <<exc>>
             /\ spiOpen' = e.open
             /\ log' = e.log
             /\ result' = IF e.suppress THEN "none" ELSE exc
    /\ phase' = "closed"
    /\ lastOp' = "exit"
    /\ returned' = None
    /\ UNCHANGED regs

\* payloads the caller transmits
PayloadBytes == {0, 65}
Payloads == UNION {[1..n -> PayloadBytes] : n \in 0..MaxPayloadLen}

\* bytes the RX FIFO may hold: payload bytes, RSSI bytes, LQI/CRC bytes
RxPayloadBytes == {65, 66}
RssiBytes == {0, 128}
TrailerBytes == {0, 42, 64, 127, 128, 170, 192, 255}
RxBuffers(n) ==
    IF n < 2 THEN {<<>>}
    ELSE {d \o <<r, t>> : d \in [1..(n - 2) -> RxPayloadBytes],
                          r \in RssiBytes, t \in TrailerBytes}

\* a method call inside the session
Call(op, arg, c, value) ==
    /\ lastOp' = op
    /\ lastArg' = arg
    /\ regs' = c.regs
    /\ log' = c.log
    /\ result' = c.exc
    /\ returned' = value
    /\ UNCHANGED <<phase, spiOpen>>

Transmit ==
    /\ phase = "active"
    /\ \E payload \in Payloads, marcstate \in MarcStates, fault \in BOOLEAN :
         Call("transmit", payload,
              transmit(Context(regs), payload,
                       [marcstate |-> marcstate, fault |-> fault]),
              None)

SetPacketLengthMode ==
    /\ phase = "active"
    /\ \E mode \in PacketLengthMode, fault \in WriteFaults :
         Call("set_packet_length_mode", <<mode>>,
              set_packet_length_mode(Context(regs), mode,
                                     WriteResponse(1, fault)),
              None)

SetPacketLengthBytes ==
    /\ phase = "active"
    /\ \E packet_length \in 0..(MaxPayloadLen + 1) \cup {255, 256},
          fault \in WriteFaults :
         Call("set_packet_length_bytes", <<packet_length>>,
              set_packet_length_bytes(Context(regs), packet_length,
                                      WriteResponse(1, fault)),
              None)

EnableReceiveMode ==
    /\ phase = "active"
    /\ Call("_enable_receive_mode", <<>>,
            _enable_receive_mode(Context(regs)), None)

GetReceivedPacket ==
    /\ phase = "active"
    /\ \E rxbytes \in 0..MaxRxBytes :
         \E buffer \in RxBuffers(rxbytes) :
            LET c == _get_received_packet(Context(regs),
                        [rxbytes |-> rxbytes, buffer |-> buffer])
            IN  Call("_get_received_packet", <<>>, c,
                     IF Ok(c) /\ rxbytes >= 2 THEN ParsePacket(buffer)
                     ELSE None)

\* `with transceiver.asynchronous_transmission():` -- the scope is entered
\* only when the code before the yield did not raise
AsyncEnter ==
    /\ phase = "active"
    /\ \E fault \in BOOLEAN :
         LET c == asynchronous_transmission_enter(Context(regs), fault)
         IN  /\ regs' = c.regs
             /\ log' = c.log
             /\ result' = c.exc
             /\ phase' = IF Ok(c) THEN "async" ELSE "active"
    /\ lastOp' = "async_enter"
    /\ lastArg' = <<>>
    /\ returned' = None
    /\ UNCHANGED spiOpen

\* the caller's code inside the scope returns, or raises exc; an exception
\* raised by the finally clause replaces the one in flight
AsyncExit ==
    /\ phase = "async"
    /\ \E exc \in {"none", "CallerError"}, fault \in BOOLEAN :
         LET c == asynchronous_transmission_finally(Context(regs), fault)
         IN  /\ regs' = c.regs
             /\ log' = c.log
             /\ result' = IF Ok(c) THEN exc ELSE c.exc
             /\ lastArg' = <<exc>>
    /\ phase' = "active"
    /\ lastOp' = "async_exit"
    /\ returned' = None
    /\ UNCHANGED spiOpen

Next ==
    \/ Enter
    \/ Exit
    \/ Transmit
    \/ SetPacketLengthMode
    \/ SetPacketLengthBytes
    \/ EnableReceiveMode
    \/ GetReceivedPacket
    \/ AsyncEnter
    \/ AsyncExit

Spec == Init /\ [][Next]_vars

----------------------------------------------------------------------------
(* One call of a configuration method on a device in any register state.   *)
(* A setter is a function of the byte it reads and of its argument, so the *)
(* device state is drawn first and each behaviour makes one call on it.    *)

DefaultRegs ==
    [PKTCTRL0 |-> 69, PKTLEN |-> 255, MDMCFG2 |-> 2, FREND0 |-> 16,
     MCSM0 |-> 4, SYNC1 |-> 211, SYNC0 |-> 145, FREQ2 |-> 30, FREQ1 |-> 196,
     FREQ0 |-> 236, MDMCFG4 |-> 140, MDMCFG3 |-> 34, MDMCFG1 |-> 34]

\* the registers the methods read before they write
ReadRegisters == {"PKTCTRL0", "PKTLEN", "MDMCFG2", "MDMCFG1", "MDMCFG4", "FREND0"}

\* every byte in each of them, one register at a time
CodecRegs ==
    {[DefaultRegs EXCEPT ![name] = b] : name \in ReadRegisters, b \in Byte}

CodecInit ==
    /\ phase = "active"
    /\ spiOpen = TRUE
    /\ regs \in CodecRegs
    /\ lastOp = "init"
    /\ lastArg = <<>>
    /\ log = <<>>
    /\ result = "none"
    /\ returned = None

\* the call is the first one on the drawn device state
FirstCall(op, arg, c) ==
    /\ phase = "active"
    /\ lastOp = "init"
    /\ Call(op, arg, c, None)

\* arguments of the calls
PreambleLengths == (0 - 1)..MaxPreambleLength
SyncWords == {<<>>, <<211>>, <<211, 145>>, <<0, 255>>, <<1, 2, 3>>}
\* symbol rates, in units of f_xosc / 2^28
SymbolRates ==
    {0 - 1, 0, 1, 511, 512, 767, 1023, 1024, 6195, 2 ^ 24, 511 * (2 ^ 16),
     2 ^ 25 - 2 ^ 15 - 1, 2 ^ 25 - 2 ^ 15, 2 ^ 25 - 1, 2 ^ 25}
\* frequencies, in units of f_xosc / 2^22
BaseFrequencies ==
    {w * _FREQUENCY_CONTROL_WORD_HERTZ_FACTOR + d :
        w \in {0 - 1, 0, 1, 1093745, 2 ^ 24 - 1, 2 ^ 24},
        d \in {0 - 32, 0 - 1, 0, 1, 32}}

\* plain ints a caller can pass where a member of an enumeration of the
\* given width is expected: the type hints are not enforced
OutOfField(width) == {2 ^ width, 2 ^ (width + 1) - 1}

SetModulationFormat ==
    \E m \in ModulationFormat \cup OutOfField(3), fault \in WriteFaults :
        FirstCall("_set_modulation_format", <<m>>,
                  _set_modulation_format(Context(regs), m,
                                         WriteResponse(1, fault)))

SetPowerAmplifierSettingIndex ==
    \E setting_index \in 0..7, fault \in WriteFaults :
        FirstCall("_set_power_amplifier_setting_index", <<setting_index>>,
                  _set_power_amplifier_setting_index(
                      Context(regs), setting_index, WriteResponse(1, fault)))

EnableManchesterCode ==
    \E fault \in WriteFaults :
        FirstCall("enable_manchester_code", <<>>,
                  enable_manchester_code(Context(regs), WriteResponse(1, fault)))

SetSyncMode ==
    \E mode \in SyncMode \cup OutOfField(2), fault \in WriteFaults :
        FirstCall("set_sync_mode", <<mode>>,
                  set_sync_mode(Context(regs), mode, WriteResponse(1, fault)))

SetPreambleLengthIndex ==
    \E index \in 0..7, fault \in WriteFaults :
        FirstCall("_set_preamble_length_index", <<index>>,
                  _set_preamble_length_index(Context(regs), index,
                                             WriteResponse(1, fault)))

SetPreambleLengthBytes ==
    \E length \in PreambleLengths, fault \in WriteFaults :
        FirstCall("set_preamble_length_bytes", <<length>>,
                  set_preamble_length_bytes(Context(regs), length,
                                            WriteResponse(1, fault)))

SetSyncWord ==
    \E sync_word \in SyncWords, fault \in WriteFaults :
        FirstCall("set_sync_word", sync_word,
                  set_sync_word(Context(regs), sync_word,
                                WriteResponse(Len(sync_word), fault)))

DisableDataWhitening ==
    \E fault \in WriteFaults :
        FirstCall("_disable_data_whitening", <<>>,
                  _disable_data_whitening(Context(regs), WriteResponse(1, fault)))

DisableChecksum ==
    \E fault \in WriteFaults :
        FirstCall("disable_checksum", <<>>,
                  disable_checksum(Context(regs), WriteResponse(1, fault)))

SetTransceiveMode ==
    \E mode \in _TransceiveMode \cup OutOfField(2), fault \in WriteFaults :
        FirstCall("_set_transceive_mode", <<mode>>,
                  _set_transceive_mode(Context(regs), mode,
                                       WriteResponse(1, fault)))

FirstSetPacketLengthMode ==
    \E mode \in PacketLengthMode \cup OutOfField(2), fault \in WriteFaults :
        FirstCall("set_packet_length_mode", <<mode>>,
                  set_packet_length_mode(Context(regs), mode,
                                         WriteResponse(1, fault)))

FirstSetPacketLengthBytes ==
    \E packet_length \in 0..(MaxPayloadLen + 1) \cup {255, 256},
       fault \in WriteFaults :
        FirstCall("set_packet_length_bytes", <<packet_length>>,
                  set_packet_length_bytes(Context(regs), packet_length,
                                          WriteResponse(1, fault)))

SetSymbolRateBaud ==
    \E real \in SymbolRates, fault \in 0..2 :
        FirstCall("set_symbol_rate_baud", <<real>>,
                  set_symbol_rate_baud(Context(regs), real, fault))

SetBaseFrequencyHertz ==
    \E freq \in BaseFrequencies, fault \in WriteFaults :
        FirstCall("set_base_frequency_hertz", <<freq>>,
                  set_base_frequency_hertz(Context(regs), freq,
                                           WriteResponse(3, fault)))

FirstTransmit ==
    \E payload \in Payloads, marcstate \in MarcStates, fault \in BOOLEAN :
        FirstCall("transmit", payload,
                  transmit(Context(regs), payload,
                           [marcstate |-> marcstate, fault |-> fault]))

CodecNext ==
    \/ SetModulationFormat
    \/ SetPowerAmplifierSettingIndex
    \/ EnableManchesterCode
    \/ SetSyncMode
    \/ SetPreambleLengthIndex
    \/ SetPreambleLengthBytes
    \/ SetSyncWord
    \/ DisableDataWhitening
    \/ DisableChecksum
    \/ SetTransceiveMode
    \/ FirstSetPacketLengthMode
    \/ FirstSetPacketLengthBytes
    \/ SetSymbolRateBaud
    \/ SetBaseFrequencyHertz
    \/ FirstTransmit

CodecSpec == CodecInit /\ [][CodecNext]_vars

----------------------------------------------------------------------------
(* The converters are class methods and pure: an input is drawn and the    *)
(* conversion applied to it.                                               *)

SymbolRatePairs == {<<"pair", m, e>> : m \in 0..255, e \in 1..16}

FrequencyWords ==
    (0..MaxFrequencyWord)
    \cup {2 ^ 24 - 1 - k : k \in 0..MaxFrequencyWord}
    \cup {2 ^ j : j \in 0..23} \cup {2 ^ j - 1 : j \in 1..24}
    \cup {2 ^ j + 1 : j \in 1..23}

\* frequencies on, next to and half way between the control words
FrequencyOffsets == {0 - 32, 0 - 31, 0 - 1, 0, 1, 31, 32}
Frequencies ==
    {w * _FREQUENCY_CONTROL_WORD_HERTZ_FACTOR + d :
        w \in FrequencyWords \cup {2 ^ 24}, d \in FrequencyOffsets}

\* symbol rates, in units of f_xosc / 2^28: the small ones, and for every
\* exponent the rates on and around the step to the next exponent and the
\* rates half way between two mantissas
SymbolRateInputs ==
    ((0 - 1)..MaxSymbolRate)
    \cup UNION {{2 ^ (e + 9) - 2 ^ (e - 1) - 1, 2 ^ (e + 9) - 2 ^ (e - 1),
                 2 ^ (e + 9) - 1, 2 ^ (e + 9), 2 ^ (e + 9) + 1,
                 2 ^ (e + 8) + 2 ^ (e - 1), 2 ^ (e + 8) + 3 * 2 ^ (e - 1)} :
                e \in 1..17}

ConverterInputs ==
    SymbolRatePairs
    \cup {<<"word", w>> : w \in FrequencyWords}
    \cup {<<"hertz", f>> : f \in Frequencies}
    \cup {<<"rate", real>> : real \in SymbolRateInputs}
    \cup {<<"rssi", i>> : i \in Byte}

ConverterInit ==
    /\ phase = "new"
    /\ spiOpen = FALSE
    /\ regs = DefaultRegs
    /\ lastOp = "input"
    /\ lastArg \in ConverterInputs
    /\ log = <<>>
    /\ result = "none"
    /\ returned = None

Converted(op, exc, value) ==
    /\ lastOp' = op
    /\ result' = exc
    /\ returned' = value
    /\ UNCHANGED <<phase, spiOpen, regs, lastArg, log>>

\* _symbol_rate_real_to_floating_point(
\*     _symbol_rate_floating_point_to_real(mantissa, exponent))
SymbolRateRoundTrip ==
    /\ lastOp = "input"
    /\ lastArg[1] = "pair"
    /\ LET real == _symbol_rate_floating_point_to_real(lastArg[2], lastArg[3])
           fp == _symbol_rate_real_to_floating_point(real)
       IN  Converted("symbol_rate_round_trip", fp.exc,
                     [kind |-> "pair", real |-> real,
                      mantissa |-> fp.mantissa, exponent |-> fp.exponent])

\* _hertz_to_frequency_control_word(_frequency_control_word_to_hertz(word))
FrequencyWordRoundTrip ==
    /\ lastOp = "input"
    /\ lastArg[1] = "word"
    /\ LET hertz == _frequency_control_word_to_hertz(ToBytes3(lastArg[2]).bytes)
           w == _hertz_to_frequency_control_word(hertz)
       IN  Converted("frequency_word_round_trip", w.exc,
                     [kind |-> "word", hertz |-> hertz, bytes |-> w.bytes])

\* _frequency_control_word_to_hertz(_hertz_to_frequency_control_word(hertz))
FrequencyRoundTrip ==
    /\ lastOp = "input"
    /\ lastArg[1] = "hertz"
    /\ LET w == _hertz_to_frequency_control_word(lastArg[2])
       IN  Converted("frequency_round_trip", w.exc,
                     [kind |-> "hertz", bytes |-> w.bytes,
                      hertz |-> IF w.exc = "none"
                                THEN _frequency_control_word_to_hertz(w.bytes)
                                ELSE 0])

\* _symbol_rate_real_to_floating_point(real)
SymbolRateEncode ==
    /\ lastOp = "input"
    /\ lastArg[1] = "rate"
    /\ LET fp == _symbol_rate_real_to_floating_point(lastArg[2])
       IN  Converted("symbol_rate_encode", fp.exc,
                     [kind |-> "rate", mantissa |-> fp.mantissa,
                      exponent |-> fp.exponent])

\* _ReceivedPacket(rssi_index=i, ...).rssi_dbm
RssiDbm ==
    /\ lastOp = "input"
    /\ lastArg[1] = "rssi"
    /\ Converted("rssi_dbm", "none",
                 [kind |-> "rssi", half_dbm |-> rssi_dbm(lastArg[2])])

ConverterNext ==
    \/ SymbolRateRoundTrip
    \/ FrequencyWordRoundTrip
    \/ FrequencyRoundTrip
    \/ SymbolRateEncode
    \/ RssiDbm

ConverterSpec == ConverterInit /\ [][ConverterNext]_vars

----------------------------------------------------------------------------
(* Properties *)

\* C1: a transmit during which the device reports a MARCSTATE other than
\* IDLE fails, and it has issued no TX FIFO write, no SFTX strobe and no STX
\* strobe.
C1_TransmitNotIdleFailsWithoutWrite ==
    (/\ lastOp = "transmit"
     /\ \E i \in DOMAIN log :
           log[i].reg = "MARCSTATE" /\ log[i].response[2] # IDLE)
    => /\ result # "none"
       /\ \A i \in DOMAIN log : log[i].reg \notin {"TX", "SFTX", "STX"}

\* a transmit of a well-formed payload was refused because the device is in RX
C1_Witness ==
    /\ lastOp = "transmit"
    /\ result = "Exception"
    /\ Len(lastArg) > 0
    /\ \E i \in DOMAIN log :
          log[i].reg = "MARCSTATE" /\ log[i].response[2] = 13

\* C2: the transport is never left open: once acquisition has opened it, it
\* is closed when the session is over, also when acquisition itself failed.
C2_TransportClosedWhenSessionOver ==
    phase \in {"closed", "failed"} => ~spiOpen

\* C3: leaving an acquired session closes the transport, issues no bus
\* transaction and hands the exception in flight on to the caller.
C3_ExitClosesAndPropagates ==
    lastOp = "exit"
    => /\ ~spiOpen
       /\ log = <<>>
       /\ result = lastArg[1]

\* the session was left by an exception and the transport is closed
C3_Witness ==
    /\ lastOp = "exit"
    /\ lastArg # <<"none">>
    /\ result # "none"
    /\ ~spiOpen

\* C4: on every exit of the asynchronous_transmission scope, SIDLE is strobed
\* first and PKTCTRL0 is then rewritten with PKT_FORMAT = FIFO; the device is
\* not left in asynchronous serial mode.
C4_AsyncScopeRestoresFifo ==
    lastOp = "async_exit"
    => /\ Len(log) = 3
       /\ log[1].reg = "SIDLE" /\ log[1].flag = 0 /\ log[1].tx = <<>>
       /\ log[2].reg = "PKTCTRL0" /\ log[2].flag = 128
       /\ log[3].reg = "PKTCTRL0" /\ log[3].flag = 64
       /\ Len(log[3].tx) = 1
       /\ (log[3].tx[1] \div 16) % 4 = 0
       /\ (regs.PKTCTRL0 \div 16) % 4 = 0

\* the scope was left by an error of the caller's code
C4_Witness ==
    /\ lastOp = "async_exit"
    /\ lastArg = <<"CallerError">>
    /\ result = "CallerError"
    /\ phase = "active"

\* C5: the writes and strobes of a successful transmit are exactly SFTX, one
\* burst write to the TX FIFO, STX, in this order, and the MARCSTATE read
\* that returned IDLE comes before them.
C5_TransmitOrder ==
    (lastOp = "transmit" /\ result = "none")
    => LET n == Len(log)
       IN  /\ n >= 4
           /\ \A i \in 1..(n - 3) : log[i].flag \in {128, 192}
           /\ log[n - 3].reg = "MARCSTATE" /\ log[n - 3].response[2] = IDLE
           /\ log[n - 2].reg = "SFTX" /\ log[n - 2].flag = 0
           /\ log[n - 1].reg = "TX" /\ log[n - 1].flag = 64
           /\ log[n].reg = "STX" /\ log[n].flag = 0

\* a transmit succeeded
C5_Witness ==
    /\ lastOp = "transmit"
    /\ result = "none"
    /\ Len(lastArg) = 2

\* C6: in variable packet length mode, a payload of n bytes, 1 <= n <= PKTLEN,
\* sent while the device is IDLE is written to the TX FIFO as n + 1 bytes: n,
\* then the payload; an empty payload and one longer than PKTLEN fail with a
\* ValueError.
C6_VariableLengthFraming ==
    (lastOp = "transmit" /\ regs.PKTCTRL0 % 4 = 1)
    => LET n == Len(lastArg)
       IN  /\ (n = 0 \/ n > regs.PKTLEN) => result = "ValueError"
           /\ (/\ 1 <= n /\ n <= regs.PKTLEN
               /\ \E i \in DOMAIN log :
                     log[i].reg = "MARCSTATE" /\ log[i].response[2] = IDLE)
              => /\ Cardinality({i \in DOMAIN log : log[i].reg = "TX"}) = 1
                 /\ \A i \in DOMAIN log :
                       log[i].reg = "TX"
                       => /\ Len(log[i].tx) = n + 1
                          /\ log[i].tx[1] = n
                          /\ log[i].tx[1] # 0
                          /\ \A k \in 1..n : log[i].tx[k + 1] = lastArg[k]

\* a 3-byte payload went out with its length byte
C6_Witness ==
    /\ lastOp = "transmit"
    /\ regs.PKTCTRL0 % 4 = 1
    /\ Len(lastArg) = 3
    /\ result = "none"
    /\ \E i \in DOMAIN log : log[i].reg = "TX" /\ Len(log[i].tx) = 4

\* C7: in fixed packet length mode, a payload whose length is not PKTLEN fails
\* with a ValueError; one whose length is PKTLEN, sent while the device is
\* IDLE, is written to the TX FIFO as it is.
C7_FixedLengthFraming ==
    (lastOp = "transmit" /\ regs.PKTCTRL0 % 4 = 0)
    => LET n == Len(lastArg)
       IN  /\ n # regs.PKTLEN => result = "ValueError"
           /\ (/\ n = regs.PKTLEN
               /\ \E i \in DOMAIN log :
                     log[i].reg = "MARCSTATE" /\ log[i].response[2] = IDLE)
              => /\ Cardinality({i \in DOMAIN log : log[i].reg = "TX"}) = 1
                 /\ \A i \in DOMAIN log :
                       log[i].reg = "TX" => log[i].tx = lastArg

\* a payload of the configured length went out in fixed mode
C7_Witness ==
    /\ lastOp = "transmit"
    /\ regs.PKTCTRL0 % 4 = 0
    /\ Len(lastArg) = regs.PKTLEN
    /\ Len(lastArg) > 0
    /\ result = "none"

\* C8: _get_received_packet returns None without reading the RX FIFO when
\* RXBYTES is below 2; otherwise it reads that many bytes in one burst, the
\* payload is all of them but the last two, in order, and the RSSI index is
\* the second to last.
C8_ReceiveParsing ==
    lastOp = "_get_received_packet"
    => /\ Len(log) >= 1
       /\ log[1].reg = "RXBYTES"
       /\ LET rxbytes == log[1].response[2]
          IN  IF rxbytes < 2
              THEN Len(log) = 1 /\ returned = None
              ELSE /\ Len(log) = 2
                   /\ log[2].reg = "RX" /\ log[2].flag = 192
                   /\ Len(log[2].tx) = rxbytes
                   /\ returned.kind = "packet"
                   /\ Len(returned.data) = rxbytes - 2
                   /\ \A k \in 1..(rxbytes - 2) :
                         returned.data[k] = log[2].response[k + 1]
                   /\ returned.rssi_index = log[2].response[rxbytes]

\* a record with a 2-byte payload of distinct bytes was received
C8_Witness ==
    /\ lastOp = "_get_received_packet"
    /\ returned.kind = "packet"
    /\ Len(returned.data) = 2
    /\ returned.data[1] # returned.data[2]

\* C9: the CRC-valid flag of a received record is the top bit of the last
\* trailer byte and the link quality indicator is that byte mod 128.
C9_TrailerDecoding ==
    (lastOp = "_get_received_packet" /\ returned.kind = "packet")
    => LET trailer == log[2].response[Len(log[2].response)]
       IN  /\ returned.checksum_valid = (trailer >= 128)
           /\ returned.link_quality_indicator = trailer % 128

\* C10: acquisition fails with a ValueError when PARTNUM is not 0 or VERSION
\* is not 0x14, having issued nothing but the SRES strobe and status
\* register reads.
C10_IdentityMismatchBeforeConfiguration ==
    (/\ lastOp = "enter"
     /\ \E i \in DOMAIN log :
           \/ log[i].reg = "PARTNUM" /\ log[i].response[2] # 0
           \/ log[i].reg = "VERSION" /\ log[i].response[2] # 20)
    => /\ result = "ValueError"
       /\ phase = "failed"
       /\ log[1].reg = "SRES" /\ log[1].flag = 0
       /\ \A i \in 2..Len(log) :
             log[i].flag = 192 /\ log[i].reg \in {"PARTNUM", "VERSION"}

\* acquisition was refused because of the VERSION the device reported
C10_Witness ==
    /\ lastOp = "enter"
    /\ result = "ValueError"
    /\ Len(log) = 3
    /\ log[3].reg = "VERSION" /\ log[3].response[2] = 4

\* C11: acquisition reads MARCSTATE after the four baseline configuration
\* writes and fails with a ValueError unless the device reports IDLE; it
\* returns a session only when PARTNUM, VERSION and MARCSTATE all matched.
C11_AcquisitionRequiresIdle ==
    lastOp = "enter"
    => /\ \A i \in DOMAIN log :
             log[i].reg = "MARCSTATE"
             => /\ i = Len(log)
                /\ Cardinality({k \in 1..i : log[k].flag = 64}) = 4
                /\ \A k \in 1..i :
                      log[k].flag = 64
                      => log[k].reg \in {"MDMCFG2", "FREND0", "PKTCTRL0", "MCSM0"}
                /\ (log[i].response[2] # 1) => result = "ValueError"
                /\ (log[i].response[2] = 1) => result = "none"
       /\ (phase = "active" \/ result = "none")
          => /\ phase = "active" /\ result = "none"
             /\ \E i \in DOMAIN log :
                   log[i].reg = "PARTNUM" /\ log[i].response[2] = 0
             /\ \E i \in DOMAIN log :
                   log[i].reg = "VERSION" /\ log[i].response[2] = 20
             /\ log[Len(log)].reg = "MARCSTATE"
             /\ log[Len(log)].response[2] = 1

\* acquisition was refused after the baseline configuration because the
\* device reported RX
C11_Witness ==
    /\ lastOp = "enter"
    /\ phase = "failed"
    /\ result = "ValueError"
    /\ log[Len(log)].reg = "MARCSTATE"
    /\ log[Len(log)].response[2] = 13

\* C12: after _set_modulation_format(m), MOD_FORMAT (MDMCFG2 bits 6:4) is m
\* and the other bits of MDMCFG2 are those of the prior byte.
C12_ModulationFormatReplaced ==
    (lastOp = "_set_modulation_format" /\ lastArg[1] \in ModulationFormat)
    => LET prior == log[1].response[2]
       IN  /\ (regs.MDMCFG2 \div 16) % 8 = lastArg[1]
           /\ regs.MDMCFG2 % 16 = prior % 16
           /\ regs.MDMCFG2 \div 128 = prior \div 128

\* C13: the power amplifier setter writes back a byte with the index in bits
\* 2:0 and bits 7:3 of the prior FREND0 byte.
C13_PowerAmplifierIndexReplaced ==
    lastOp = "_set_power_amplifier_setting_index"
    => LET prior == log[1].response[2]
           written == log[2].tx[1]
       IN  /\ written % 8 = lastArg[1]
           /\ written \div 8 = prior \div 8

\* C14: set_sync_mode, set_packet_length_mode, _set_transceive_mode,
\* _set_preamble_length_index, enable_manchester_code, disable_checksum and
\* _disable_data_whitening read one register and write it back once, with
\* their own field set and every other bit as it was read; they write no
\* other register.
C14_SettersPreserveOtherBits ==
    LET field ==
          CASE lastOp = "set_sync_mode" /\ lastArg[1] \in SyncMode ->
                 [reg |-> "MDMCFG2", low |-> 1, size |-> 4, value |-> lastArg]
            [] lastOp = "set_packet_length_mode"
               /\ lastArg[1] \in PacketLengthMode ->
                 [reg |-> "PKTCTRL0", low |-> 1, size |-> 4, value |-> lastArg]
            [] lastOp = "_set_transceive_mode"
               /\ lastArg[1] \in _TransceiveMode ->
                 [reg |-> "PKTCTRL0", low |-> 16, size |-> 4, value |-> lastArg]
            [] lastOp = "_set_preamble_length_index" ->
                 [reg |-> "MDMCFG1", low |-> 16, size |-> 8, value |-> lastArg]
            [] lastOp = "enable_manchester_code" ->
                 [reg |-> "MDMCFG2", low |-> 8, size |-> 2, value |-> <<1>>]
            [] lastOp = "disable_checksum" ->
                 [reg |-> "PKTCTRL0", low |-> 4, size |-> 2, value |-> <<0>>]
            [] lastOp = "_disable_data_whitening" ->
                 [reg |-> "PKTCTRL0", low |-> 64, size |-> 2, value |-> <<0>>]
            [] OTHER -> [reg |-> "", low |-> 1, size |-> 1, value |-> <<0>>]
    IN  field.reg # ""
        => /\ Len(log) = 2
           /\ log[1].reg = field.reg /\ log[1].flag = 128
           /\ log[2].reg = field.reg /\ log[2].flag = 64
           /\ Len(log[2].tx) = 1
           /\ LET prior == log[1].response[2]
                  written == log[2].tx[1]
              IN  /\ (written \div field.low) % field.size = field.value[1]
                  /\ written % field.low = prior % field.low
                  /\ written \div (field.low * field.size)
                       = prior \div (field.low * field.size)
                  /\ regs = [DefaultRegs EXCEPT ![field.reg] = written]
                     \/ \E name \in ReadRegisters \ {field.reg}, b \in Byte :
                           regs = [DefaultRegs EXCEPT ![name] = b,
                                                      ![field.reg] = written]

\* set_sync_mode replaced the two low bits of a byte whose other bits are set
C14_Witness ==
    /\ lastOp = "set_sync_mode"
    /\ lastArg = <<2>>
    /\ log[1].response[2] = 255
    /\ regs.MDMCFG2 = 254

\* C15: set_preamble_length_bytes(length) followed by
\* get_preamble_length_bytes() gives length back for each of 2, 3, 4, 6, 8,
\* 12, 16, 24; every 3-bit index decodes to a length that encodes to that
\* index; every other length fails with a ValueError and nothing is written.
C15_PreambleLengthRoundTrip ==
    lastOp = "set_preamble_length_bytes"
    => /\ IF lastArg[1] \in {2, 3, 4, 6, 8, 12, 16, 24}
          THEN /\ result # "ValueError"
               /\ get_preamble_length_bytes_of(regs.MDMCFG1) = lastArg[1]
          ELSE result = "ValueError" /\ log = <<>>
       /\ \A index \in 0..7 :
             /\ PreambleLengthOfIndex(index) \in {2, 3, 4, 6, 8, 12, 16, 24}
             /\ PreambleIndex(PreambleLengthOfIndex(index))
                  = [is_integer |-> TRUE, value |-> index]

\* a preamble of 12 bytes was set on a register holding another length
C15_Witness ==
    /\ lastOp = "set_preamble_length_bytes"
    /\ lastArg = <<12>>
    /\ result = "none"
    /\ log[1].response[2] = 34
    /\ regs.MDMCFG1 = 82

\* C16: encoding the rate decoded from (mantissa, exponent), mantissa in
\* 0..255 and exponent in 1..16, gives the same pair back.
C16_SymbolRateRoundTrip ==
    lastOp = "symbol_rate_round_trip"
    => /\ result = "none"
       /\ returned.mantissa = lastArg[2]
       /\ returned.exponent = lastArg[3]

\* the largest pair went through the round trip
C16_Witness ==
    /\ lastOp = "symbol_rate_round_trip"
    /\ lastArg = <<"pair", 255, 16>>
    /\ returned.real = 511 * 65536
    /\ returned.exponent = 16

\* C17: a 24-bit control word converted to hertz and back is the same word,
\* as three big-endian bytes; a frequency whose rounded word fits in 24 bits,
\* converted to a word and back, moves by at most one step f_xosc / 2^16.
C17_FrequencyRoundTrip ==
    /\ lastOp = "frequency_word_round_trip"
       => /\ result = "none"
          /\ returned.bytes = <<lastArg[2] \div 65536,
                                (lastArg[2] \div 256) % 256,
                                lastArg[2] % 256>>
    /\ lastOp = "frequency_round_trip"
       => /\ (0 - 32 <= lastArg[2] /\ lastArg[2] < (2 ^ 24) * 64 - 32)
             <=> result = "none"
          /\ result = "none"
             => /\ returned.hertz - lastArg[2] <= 64
                /\ lastArg[2] - returned.hertz <= 64

\* a word with three different bytes went through the round trip, and so
\* did a frequency half way between two words
C17_Witness ==
    \/ /\ lastOp = "frequency_word_round_trip"
       /\ lastArg = <<"word", 65535>>
       /\ returned.bytes = <<0, 255, 255>>
    \/ /\ lastOp = "frequency_round_trip"
       /\ result = "none"
       /\ returned.hertz - lastArg[2] = 32

\* C18: a call with an argument outside the representable domain fails and
\* has issued no register write, no FIFO write and no strobe.
C18_InvalidArgumentRejectedBeforeWrite ==
    LET n == Len(lastArg)
        invalid ==
          CASE lastOp = "set_sync_word" -> n # 2
            [] lastOp = "set_packet_length_bytes" ->
                 lastArg[1] < 1 \/ lastArg[1] > 255
            [] lastOp = "set_preamble_length_bytes" ->
                 lastArg[1] \notin {2, 3, 4, 6, 8, 12, 16, 24}
            [] lastOp = "set_symbol_rate_baud" ->
                 lastArg[1] < 512 \/ lastArg[1] >= 2 ^ 25 - 2 ^ 15
            [] lastOp = "set_base_frequency_hertz" ->
                 lastArg[1] < 0 - 32 \/ lastArg[1] >= (2 ^ 24) * 64 - 32
            [] lastOp = "transmit" ->
                 \/ regs.PKTCTRL0 % 4 = 1 /\ (n = 0 \/ n > regs.PKTLEN)
                 \/ regs.PKTCTRL0 % 4 = 0 /\ n # regs.PKTLEN
            [] OTHER -> FALSE
    IN  invalid
        => /\ result \in {"ValueError", "AssertionError", "OverflowError"}
           /\ \A i \in DOMAIN log : log[i].flag \in {128, 192}
           /\ regs \in CodecRegs

\* a frequency beyond the 24-bit word and a sync word of three bytes were
\* refused
C18_Witness ==
    \/ lastOp = "set_base_frequency_hertz" /\ result = "OverflowError"
    \/ lastOp = "set_sync_word" /\ Len(lastArg) = 3 /\ result = "ValueError"

\* a response of the wrong length, or one whose bytes after the leading
\* status byte are not all equal to it
BadEcho(transaction) ==
    \/ Len(transaction.response) # Len(transaction.request)
    \/ \E j \in 2..Len(transaction.response) :
          transaction.response[j] # transaction.response[1]

\* C19: a burst write whose response holds a byte different from the leading
\* status byte, or has not the length of the request, fails with an
\* AssertionError and is the call's last transaction; inside a session the
\* failure changes nothing in the driver: the session is still active and
\* its transport open.
C19_BadEchoFailsAndLeavesNoState ==
    \A i \in DOMAIN log :
       (log[i].flag = _WRITE_BURST /\ BadEcho(log[i]))
       => /\ result = "AssertionError"
          /\ i = Len(log)
          /\ lastOp # "enter" => phase = "active" /\ spiOpen

\* set_packet_length_mode met a chip status that changed during its write
C19_Witness ==
    /\ lastOp = "set_packet_length_mode"
    /\ result = "AssertionError"
    /\ Len(log) = 2
    /\ log[2].flag = _WRITE_BURST
    /\ Len(log[2].response) = 2
    /\ log[2].response[2] # log[2].response[1]
    /\ phase = "active"
    /\ spiOpen

\* C20: every transaction sends one header byte, the address plus the access
\* mode flag (0, 64, 128 or 192), then its data bytes, and a response of
\* another length fails the call; status registers are read with flag 192 and
\* one data byte, command strobes send the header alone.
C20_TransactionFraming ==
    \A i \in DOMAIN log :
       LET t == log[i]
       IN  /\ t.flag \in {_WRITE_SINGLE_BYTE, _WRITE_BURST,
                          _READ_SINGLE_BYTE, _READ_BURST}
           /\ Len(t.request) = 1 + Len(t.tx)
           /\ t.request[1] = Address[t.reg] + t.flag
           /\ \A j \in DOMAIN t.tx : t.request[j + 1] = t.tx[j]
           /\ Len(t.response) # Len(t.request)
              => result = "AssertionError" /\ i = Len(log)
           /\ t.reg \in StatusRegisterAddress
              => t.flag = _READ_BURST /\ Len(t.tx) = 1
           /\ t.reg \in StrobeAddress
              <=> t.flag = _WRITE_SINGLE_BYTE
           /\ t.reg \in StrobeAddress => t.tx = <<>>

\* a packet was fetched: the call read the status register RXBYTES with the
\* burst flag and then the RX FIFO in one burst
C20_Witness ==
    /\ lastOp = "_get_received_packet"
    /\ result = "none"
    /\ \E i \in DOMAIN log :
          log[i].reg = "RXBYTES" /\ log[i].request = <<_READ_BURST + 59, 0>>
    /\ \E i \in DOMAIN log :
          log[i].reg = "RX" /\ Len(log[i].tx) > 1

\* C21: a sync mode, packet length mode or transceive mode that does not fit
\* in 2 bits, or a modulation format that does not fit in 3 bits, makes the
\* setter fail with an error before any bus write.
C21_EnumOutOfRangeRejected ==
    LET outside ==
          CASE lastOp = "set_sync_mode" -> lastArg[1] \notin 0..3
            [] lastOp = "set_packet_length_mode" -> lastArg[1] \notin 0..3
            [] lastOp = "_set_transceive_mode" -> lastArg[1] \notin 0..3
            [] lastOp = "_set_modulation_format" -> lastArg[1] \notin 0..7
            [] OTHER -> FALSE
    IN  outside
        => /\ result \in {"ValueError", "TypeError", "AttributeError",
                          "AssertionError"}
           /\ \A i \in DOMAIN log :
                 log[i].flag \in {_READ_SINGLE_BYTE, _READ_BURST}

\* C22: for every RSSI index i in 0..255, rssi_dbm is (i - 256)/2 - 74 when
\* i >= 128 and i/2 - 74 otherwise: the index read as a signed byte, halved,
\* less 74; index 128 gives -138 and every value lies in -138 .. -10.5.
\* Values are in half dBm.
C22_RssiDecoding ==
    lastOp = "rssi_dbm"
    => LET i == lastArg[2]
           signed == ((i + 128) % 256) - 128
       IN  /\ returned.half_dbm = signed - 148
           /\ i = 128 => returned.half_dbm = 0 - 276
           /\ 0 - 276 <= returned.half_dbm
           /\ returned.half_dbm <= 0 - 21

\* index 0x80 was decoded to -138 dBm
C22_Witness ==
    /\ lastOp = "rssi_dbm"
    /\ lastArg = <<"rssi", 128>>
    /\ returned.half_dbm = 0 - 276

\* C24: the encoder returns a mantissa in 0..255 and an exponent in 1..16,
\* the pair nearest to the rate; a rate that rounds to mantissa 256 of
\* exponent k comes back as mantissa 0 of exponent k + 1; a positive rate
\* whose exponent is not in 1..16, and a rate that is not positive, fail
\* with an AssertionError.
C24_SymbolRateCarry ==
    lastOp = "symbol_rate_encode"
    => LET real == lastArg[2]
           mantissa == returned.mantissa
           exponent == returned.exponent
           k == FloorLog2(real) - 8
           carry == /\ real > 0
                    /\ k >= 1
                    /\ real >= 2 ^ (k + 9) - 2 ^ (k - 1)
       IN  /\ result \in {"none", "AssertionError"}
           /\ result = "none"
              <=> (512 <= real /\ real < 2 ^ 25 - 2 ^ 15)
           /\ result = "none"
              => /\ mantissa \in 0..255
                 /\ exponent \in 1..16
                 /\ 2 * ((256 + mantissa) * (2 ^ exponent) - real)
                      <= 2 ^ exponent
                 /\ 2 * (real - (256 + mantissa) * (2 ^ exponent))
                      <= 2 ^ exponent
           /\ carry => /\ mantissa = 0
                       /\ exponent = k + 1
                       /\ result = "none" <=> k + 1 <= 16

\* a rate half way between mantissa 255 and 256 of exponent 1 came back as
\* mantissa 0 of exponent 2
C24_Witness ==
    /\ lastOp = "symbol_rate_encode"
    /\ lastArg = <<"rate", 1023>>
    /\ result = "none"
    /\ returned.mantissa = 0
    /\ returned.exponent = 2

\* C23: set_symbol_rate_baud of a rate its encoder accepts leaves bits 7:4 of
\* MDMCFG4 as they were read, and the mantissa and exponent read back from
\* MDMCFG3 and MDMCFG4 are the pair the encoder produced.
C23_SymbolRateKeepsFilterBandwidth ==
    (lastOp = "set_symbol_rate_baud" /\ Len(log) = 3)
    => LET fp == _symbol_rate_real_to_floating_point(lastArg[1])
           prior == log[2].response[2]
       IN  /\ regs.MDMCFG4 \div 16 = prior \div 16
           /\ _get_symbol_rate_mantissa_of(regs.MDMCFG3) = fp.mantissa
           /\ _get_symbol_rate_exponent_of(regs.MDMCFG4) = fp.exponent

====
